---- MODULE Spec2Model ----
(***************************************************************************)
(* Proximity matching and presence throttling of starter-empty-shell.      *)
(*                                                                         *)
(* Part 1 (Spec): the match store and the three client operations that     *)
(* write to it: createMatchIfNeeded (hooks/useNearbyMatches.ts),           *)
(* sendConnectionRequest and acceptConnectionRequest (useConnectionRequest).*)
(* Every await of the source is a step boundary: a call is a small process *)
(* whose position is kept in calls[i].pc, and calls of several clients     *)
(* interleave at those boundaries.                                         *)
(***************************************************************************)
EXTENDS Integers, Sequences, FiniteSets, TLC

VARIABLES
    matches,        \* rows of table 'matches'
    requests,       \* rows of table 'connection_requests'
    calls,          \* in-flight and finished client calls, by start order
    now,            \* wall clock
    enabled,        \* usePresenceUpdates: the enabled option
    location,       \* usePresenceUpdates: the latest location sample, or none
    user,           \* useAuth: the signed-in user, or none
    publishTimeout, \* publishTimeoutRef: the handle of the timer armed last
    timers,         \* the armed debounce timers of the runtime
    phase,          \* history: how the current enabled or disabled period began
    lastPublished,  \* lastPublishedRef
    pubs,           \* publishPresence calls, by start order
    presence,       \* rows of table 'presence', one per user
    profileLoc,     \* location columns of table 'profiles', one row per user
    myInterests,    \* useNearbyMatches: the myInterests state
    interestLoad,   \* the user whose loadMyInterests query is in flight, or none
    nearbyUsers,    \* the nearbyUsers state: the displayed list
    loading,        \* the loading state
    intervals,      \* the active periodic timers, each with its queryNearby closure
    channels,       \* the subscribed presence-change channels, each with its closure
    evals,          \* queryNearby calls past the guard, by start order
    called          \* the number of queryNearby calls the last handler made

matchVars == <<matches, requests, calls>>

publisherVars == <<publishTimeout, timers, phase, lastPublished, pubs, presence, profileLoc>>

presenceVars == <<enabled, location, user, publishTimeout, timers, phase,
                  lastPublished, pubs, presence, profileLoc>>

schedVars == <<myInterests, interestLoad, nearbyUsers, loading, intervals, channels, evals,
               called>>

vars == <<matches, requests, calls, now, enabled, location, user, publishTimeout,
          timers, phase, lastPublished, pubs, presence, profileLoc, myInterests,
          interestLoad, nearbyUsers, loading, intervals, channels, evals, called>>

\* ---------------------------------------------------------------- bounds

NumUsers == 2
MaxCalls == 3
MaxTime == 1

Users == 1..NumUsers    \* user ids; the integer order stands for the string order of the ids
Interests == {"coffee", "books"}
Slots == 1..MaxCalls

\* --------------------------------------------------------------- pair ids

\* Array.prototype.sort on a two-element array of ids.
Sort2(a, b) == IF b < a THEN <<b, a>> ELSE <<a, b>>

\* Array.prototype.join('_') on a two-element array.
JoinUnderscore(s) == <<s[1], "_", s[2]>>

PairIdOf_Unsorted(a, b) == JoinUnderscore(<<a, b>>)

\* [user.id, otherId].sort().join('_')
PairIdOf(a, b) == JoinUnderscore(Sort2(a, b))

generatePairId_Unsorted(a, b) == JoinUnderscore(<<a, b>>)

\* lib/geo generatePairId: sort the two ids and join them.
generatePairId(a, b) == JoinUnderscore(Sort2(a, b))

\* ------------------------------------------------------------- the store

NoRow == [id |-> 0, status |-> "none"]

\* .select('id, status').eq('pair_id', p).maybeSingle(): the row when exactly
\* one matches, no data otherwise.
SelectMatch(p) ==
    LET rows == {r \in matches : r.pair_id = p}
    IN  IF Cardinality(rows) = 1
        THEN LET r == CHOOSE r \in rows : TRUE IN [id |-> r.id, status |-> r.status]
        ELSE NoRow

\* The uniqueness constraint on matches.pair_id (error code 23505).
UniqueViolation(row) == \E r \in matches : r.pair_id = row.pair_id

\* Generated primary keys: rows are never deleted, so the count is fresh.
NewMatchId == Cardinality(matches) + 1

NewRequestId == Cardinality(requests) + 1

\* Column default of matches.last_seen_together_at on insert.
DefaultLastSeen == now

\* Column default of matches.shared_interests on insert.
DefaultSharedInterests == {}

\* ------------------------------------------------------------ client calls

Idle ==
    [op |-> "none", user |-> 0, other |-> 0, shared |-> {}, dist |-> 0,
     pc |-> "idle", existing |-> NoRow, ts |-> 0, req |-> 0,
     result |-> "none", conflict |-> FALSE]

\* Calls are numbered in the order they start.
FreeSlot(i) == calls[i].op = "none" /\ \A j \in Slots : j < i => calls[j].op # "none"

SetCall(i, c) == calls' = [calls EXCEPT ![i] = c]

\* A call that has returned: its locals are gone, its arguments and outcome stay.
Return(c, result) ==
    [c EXCEPT !.pc = "done", !.result = result, !.existing = NoRow, !.ts = 0, !.req = 0]

maxMatchDistanceMeters == 100

\* Candidate distances in metres: one inside the threshold, one outside.
Distances == {80, 101}

\* config/interests getCommonInterests: the interests both lists hold.
getCommonInterests(mine, theirs) == mine \cap theirs

\* queryNearby's filter of one fetched profile (distance, then interests).
TooFar_Exclusive(distance) == distance >= maxMatchDistanceMeters

TooFar(distance) == distance > maxMatchDistanceMeters

Survives(distance, sharedInterests) == ~TooFar(distance) /\ sharedInterests # {}

\* ------------------------------------------------- createMatchIfNeeded

ReconcileUpdateRow_ResetStatus(r, ts) == [r EXCEPT !.last_seen = ts, !.status = "suggested"]

\* .update({ last_seen_together_at: new Date().toISOString() })
ReconcileUpdateRow(r, ts) == [r EXCEPT !.last_seen = ts]

ReconcileInsertRow_Connected(id, userId, other, sharedInterests) ==
    [id |-> id, pair_id |-> generatePairId(userId, other),
     uid_a |-> Sort2(userId, other)[1], uid_b |-> Sort2(userId, other)[2],
     shared_interests |-> DefaultSharedInterests, status |-> "connected",
     last_seen |-> DefaultLastSeen]

\* .insert({ pair_id, uid_a, uid_b, shared_interests, status: 'suggested' })
ReconcileInsertRow(id, userId, other, sharedInterests) ==
    [id |-> id, pair_id |-> generatePairId(userId, other),
     uid_a |-> Sort2(userId, other)[1], uid_b |-> Sort2(userId, other)[2],
     shared_interests |-> sharedInterests, status |-> "suggested",
     last_seen |-> DefaultLastSeen]

\* One iteration of queryNearby's candidate loop for a profile that passes the
\* filter: createMatchIfNeeded(profile.id, sharedInterests) is called; it returns
\* at once when sharedInterests is empty, else its existence check is answered
\* and, with a row found, the update request is built at once, carrying the
\* client's current time.
StartReconcile(i, u, o, d, mine, theirs) ==
    LET sharedInterests == getCommonInterests(mine, theirs)
        c == [Idle EXCEPT !.op = "reconcile", !.user = u, !.other = o,
                          !.shared = sharedInterests, !.dist = d]
        found == SelectMatch(generatePairId(u, o)) IN
    /\ FreeSlot(i)
    /\ u # o
    /\ Survives(d, sharedInterests)
    /\ SetCall(i, IF sharedInterests = {}
                  THEN Return(c, "skipped")
                  ELSE [c EXCEPT !.existing = found,
                                 !.ts = IF found # NoRow THEN now ELSE 0,
                                 !.pc = IF found # NoRow THEN "r_update" ELSE "r_insert"])
    /\ UNCHANGED <<matches, requests, now>>
    /\ UNCHANGED presenceVars
    /\ UNCHANGED schedVars

\* A write that replaces the row's interests too, as an upsert of the new row would.
ReconcileUpdate_Overwrite(i) ==
    LET c == calls[i] IN
    /\ c.pc = "r_update"
    /\ matches' = {IF r.id = c.existing.id
                   THEN [r EXCEPT !.last_seen = c.ts, !.shared_interests = c.shared]
                   ELSE r : r \in matches}
    /\ SetCall(i, Return(c, "updated"))
    /\ UNCHANGED <<requests, now>>
    /\ UNCHANGED presenceVars
    /\ UNCHANGED schedVars

\* The store applies the update .eq('id', existing.id); its outcome is not read.
ReconcileUpdate(i) ==
    LET c == calls[i] IN
    /\ c.pc = "r_update"
    /\ matches' = {IF r.id = c.existing.id THEN ReconcileUpdateRow(r, c.ts) ELSE r : r \in matches}
    /\ SetCall(i, Return(c, "updated"))
    /\ UNCHANGED <<requests, now>>
    /\ UNCHANGED presenceVars
    /\ UNCHANGED schedVars

\* The store applies the insert, or rejects it; a rejection is logged with
\* console.error and the call ends.
ReconcileInsert(i) ==
    LET c == calls[i]
        row == ReconcileInsertRow(NewMatchId, c.user, c.other, c.shared) IN
    /\ c.pc = "r_insert"
    /\ IF UniqueViolation(row)
       THEN /\ SetCall(i, Return([c EXCEPT !.conflict = TRUE], "error"))
            /\ UNCHANGED matches
       ELSE /\ matches' = matches \cup {row}
            /\ SetCall(i, Return(c, "created"))
    /\ UNCHANGED <<requests, now>>
    /\ UNCHANGED presenceVars
    /\ UNCHANGED schedVars

\* ------------------------------------------------- sendConnectionRequest

\* Auto-accept branch: .insert({ uid_a, uid_b, pair_id, status: 'connected' })
SendInsertRow(id, userId, receiver) ==
    [id |-> id, pair_id |-> PairIdOf(userId, receiver),
     uid_a |-> IF userId < receiver THEN userId ELSE receiver,
     uid_b |-> IF userId < receiver THEN receiver ELSE userId,
     shared_interests |-> DefaultSharedInterests, status |-> "connected",
     last_seen |-> DefaultLastSeen]

\* The call starts; a request to oneself fails before any store access.
\* Otherwise the match lookup is answered: an existing connected match ends
\* the call.
StartSend(i, u, receiver) ==
    LET c == [Idle EXCEPT !.op = "send", !.user = u, !.other = receiver]
        existingMatch == SelectMatch(PairIdOf(u, receiver)) IN
    /\ FreeSlot(i)
    /\ SetCall(i, IF u = receiver
                  THEN Return(c, "fail")
                  ELSE IF existingMatch # NoRow /\ existingMatch.status = "connected"
                       THEN Return(c, "fail")
                       ELSE [c EXCEPT !.pc = "s_request"])
    /\ UNCHANGED <<matches, requests, now>>
    /\ UNCHANGED presenceVars
    /\ UNCHANGED schedVars

\* The pending-request lookup (maybeSingle) is answered.
SendSelectRequest(i) ==
    LET c == calls[i]
        rows == {r \in requests : r.sender = c.user /\ r.receiver = c.other
                                  /\ r.status = "pending"} IN
    /\ c.pc = "s_request"
    /\ SetCall(i, IF Cardinality(rows) = 1
                  THEN Return(c, "fail")
                  ELSE [c EXCEPT !.pc = "s_profile"])
    /\ UNCHANGED <<matches, requests, now>>
    /\ UNCHANGED presenceVars
    /\ UNCHANGED schedVars

\* The receiver's profile is read: auto_accept_connections picks the branch.
\* The receiver sets the flag on their profile page at any time
\* (handleAutoAcceptToggle), so the read finds either value.
SendSelectProfile(i, auto_accept_connections) ==
    LET c == calls[i] IN
    /\ c.pc = "s_profile"
    /\ SetCall(i, [c EXCEPT !.pc = IF auto_accept_connections = TRUE
                                   THEN "s_insert_match" ELSE "s_insert_request"])
    /\ UNCHANGED <<matches, requests, now>>
    /\ UNCHANGED presenceVars
    /\ UNCHANGED schedVars

\* Auto-accept: the store applies or rejects the insert of a connected match.
SendInsertMatch(i) ==
    LET c == calls[i]
        row == SendInsertRow(NewMatchId, c.user, c.other) IN
    /\ c.pc = "s_insert_match"
    /\ IF UniqueViolation(row)
       THEN /\ SetCall(i, Return([c EXCEPT !.conflict = TRUE], "fail"))
            /\ UNCHANGED matches
       ELSE /\ matches' = matches \cup {row}
            /\ SetCall(i, Return(c, "ok_auto"))
    /\ UNCHANGED <<requests, now>>
    /\ UNCHANGED presenceVars
    /\ UNCHANGED schedVars

\* Manual mode: the store inserts a pending connection request.
SendInsertRequest(i) ==
    LET c == calls[i] IN
    /\ c.pc = "s_insert_request"
    /\ requests' = requests \cup
           {[id |-> NewRequestId, sender |-> c.user, receiver |-> c.other, status |-> "pending"]}
    /\ SetCall(i, Return(c, "ok_manual"))
    /\ UNCHANGED <<matches, now>>
    /\ UNCHANGED presenceVars
    /\ UNCHANGED schedVars

\* ----------------------------------------------- acceptConnectionRequest

AcceptInsertRow_ReceiverFirst(id, userId, senderId) ==
    [id |-> id, pair_id |-> PairIdOf(userId, senderId),
     uid_a |-> userId, uid_b |-> senderId,
     shared_interests |-> DefaultSharedInterests, status |-> "connected",
     last_seen |-> DefaultLastSeen]

\* .insert({ uid_a, uid_b, pair_id, status: 'connected' })
AcceptInsertRow(id, userId, senderId) ==
    [id |-> id, pair_id |-> PairIdOf(userId, senderId),
     uid_a |-> IF userId < senderId THEN userId ELSE senderId,
     uid_b |-> IF userId < senderId THEN senderId ELSE userId,
     shared_interests |-> DefaultSharedInterests, status |-> "connected",
     last_seen |-> DefaultLastSeen]

\* .update({ status: 'connected' })
AcceptUpdateRow(r) == [r EXCEPT !.status = "connected"]

\* handleAccept: the receiver accepts a pending request addressed to them;
\* the match lookup is answered.
StartAccept(i, u, r) ==
    LET existingMatch == SelectMatch(PairIdOf(u, r.sender)) IN
    /\ FreeSlot(i)
    /\ r \in requests
    /\ r.receiver = u
    /\ r.status = "pending"
    /\ SetCall(i, [Idle EXCEPT !.op = "accept", !.user = u, !.other = r.sender,
                               !.req = r.id, !.existing = existingMatch,
                               !.pc = IF existingMatch # NoRow THEN "a_update" ELSE "a_insert"])
    /\ UNCHANGED <<matches, requests, now>>
    /\ UNCHANGED presenceVars
    /\ UNCHANGED schedVars

\* The store sets the existing match to connected.
AcceptUpdate(i) ==
    LET c == calls[i] IN
    /\ c.pc = "a_update"
    /\ matches' = {IF r.id = c.existing.id THEN AcceptUpdateRow(r) ELSE r : r \in matches}
    /\ SetCall(i, [c EXCEPT !.pc = "a_request"])
    /\ UNCHANGED <<requests, now>>
    /\ UNCHANGED presenceVars
    /\ UNCHANGED schedVars

\* The store applies or rejects the insert of a connected match.
AcceptInsert(i) ==
    LET c == calls[i]
        row == AcceptInsertRow(NewMatchId, c.user, c.other) IN
    /\ c.pc = "a_insert"
    /\ IF UniqueViolation(row)
       THEN /\ SetCall(i, Return([c EXCEPT !.conflict = TRUE], "fail"))
            /\ UNCHANGED matches
       ELSE /\ matches' = matches \cup {row}
            /\ SetCall(i, [c EXCEPT !.pc = "a_request"])
    /\ UNCHANGED <<requests, now>>
    /\ UNCHANGED presenceVars
    /\ UNCHANGED schedVars

\* The store marks the request accepted; the call returns success.
AcceptUpdateRequest(i) ==
    LET c == calls[i] IN
    /\ c.pc = "a_request"
    /\ requests' = {IF r.id = c.req THEN [r EXCEPT !.status = "accepted"] ELSE r : r \in requests}
    /\ SetCall(i, Return(c, "ok"))
    /\ UNCHANGED <<matches, now>>
    /\ UNCHANGED presenceVars
    /\ UNCHANGED schedVars

\* ------------------------------------------------------------------ clock

Tick ==
    /\ now < MaxTime
    /\ now' = now + 1
    /\ UNCHANGED <<matches, requests, calls>>
    /\ UNCHANGED presenceVars
    /\ UNCHANGED schedVars

\* ================================================================ part 2
\* usePresenceUpdates: debounce, throttling check and publish of the local
\* user's location. Time is counted in seconds.

MaxLat == 1
MaxPublishes == 2
MaxClock == 15

NoUser == 0
NoSpeed == 0 - 1
NoLocation == [lat |-> 0 - 1, speed |-> NoSpeed]
NoPublished == [lat |-> 0 - 1, timestamp |-> 0]
\* publishTimeoutRef.current = null
NoTimer == 0
NoPresence == [lat |-> 0 - 1, geohash |-> 0 - 1]
NoProfileLoc == [lat |-> 0 - 1, geohash |-> 0 - 1]
IdlePub == [pc |-> "idle", lat |-> 0 - 1, user |-> NoUser, result |-> "none"]

\* Positions lie on one meridian, MetersPerStep apart; speed is absent or in m/s.
Latitudes == 0..MaxLat
Speeds == {NoSpeed, 0, 2}
Samples == [lat : Latitudes, speed : Speeds]
PubSlots == 1..MaxPublishes
Outcomes == {"ok", "error", "throw"}

MetersPerStep == 50
CellSteps == 2

\* lib/geo distanceMeters, on the meridian.
distanceMeters(lat1, lat2) == (IF lat1 < lat2 THEN lat2 - lat1 ELSE lat1 - lat2) * MetersPerStep

\* lib/geo toGeohash: the cell that holds the position.
toGeohash(lat) == lat \div CellSteps

\* FEATURE_FLAGS.locationThrottle
minDisplacementMeters == 50
minIntervalStationarySeconds == 15
minIntervalMovingSeconds == 10
stationarySpeedThreshold == 1

\* setTimeout(..., 5000)
debounceSeconds == 5

\* newLocation.speed ?? 0
SpeedOrZero(speed) == IF speed = NoSpeed THEN 0 ELSE speed

isStationary(newLocation) == SpeedOrZero(newLocation.speed) < stationarySpeedThreshold

minInterval(newLocation) ==
    IF isStationary(newLocation) THEN minIntervalStationarySeconds
    ELSE minIntervalMovingSeconds

\* The reference starts as a fix at the sample's own position taken at time 0.
shouldPublish_NoFirstCheck(newLocation) ==
    IF lastPublished = NoPublished THEN now >= minInterval(newLocation)
    ELSE IF distanceMeters(lastPublished.lat, newLocation.lat) >= minDisplacementMeters THEN TRUE
    ELSE IF now - lastPublished.timestamp >= minInterval(newLocation) THEN TRUE
    ELSE FALSE

shouldPublish(newLocation) ==
    IF lastPublished = NoPublished THEN TRUE
    ELSE IF distanceMeters(lastPublished.lat, newLocation.lat) >= minDisplacementMeters THEN TRUE
    ELSE IF now - lastPublished.timestamp >= minInterval(newLocation) THEN TRUE
    ELSE FALSE

\* clearTimeout(handle): the timer leaves the armed timers of the runtime; a
\* handle of a timer that fired or was cleared before has no effect.
clearTimeout(h, ts) == SelectSeq(ts, LAMBDA t : t.id # h)

\* Timer handles: a handle is not reused while a timer that carries it is armed.
NewHandle(ts) ==
    CHOOSE h \in 1..(Len(ts) + 1) :
        /\ \A k \in 1..Len(ts) : ts[k].id # h
        /\ \A g \in 1..(h - 1) : \E k \in 1..Len(ts) : ts[k].id = g

\* The main effect's guard.
EffectRuns(en, loc, u) == en /\ loc # NoLocation /\ u # NoUser

Cleanup_Missing(ts) == ts

\* The cleanup the previous run of the main effect returned, if it got past
\* its guard: clearTimeout(publishTimeoutRef.current).
Cleanup(ts) ==
    IF EffectRuns(enabled, location, user) THEN clearTimeout(publishTimeout, ts) ELSE ts

\* setTimeout(() => ..., 5000) with the effect's location and user in its closure.
NewTimer(h, loc, u) == [id |-> h, location |-> loc, due |-> now + debounceSeconds, user |-> u]

\* The main effect after a change of enabled, location or user: the previous
\* cleanup runs; then, past the guard, the pending timer is cleared and a new
\* one is armed. The armed timers afterwards.
Arm(en, loc, u) ==
    IF ~EffectRuns(en, loc, u) THEN Cleanup(timers)
    ELSE LET ts == clearTimeout(publishTimeout, Cleanup(timers))
         IN  Append(ts, NewTimer(NewHandle(ts), loc, u))

\* publishTimeoutRef.current afterwards: it is assigned only when a timer is armed.
ArmRef(en, loc, u) ==
    IF ~EffectRuns(en, loc, u) THEN publishTimeout
    ELSE NewHandle(clearTimeout(publishTimeout, Cleanup(timers)))

\* Publish calls are numbered in the order they start.
FreePub(i) == pubs[i].pc = "idle" /\ \A j \in PubSlots : j < i => pubs[j].pc # "idle"

\* lastPublishedRef.current = { lat, lng, timestamp: Date.now() }
Published(p) == [lat |-> p.lat, timestamp |-> now]

\* The location source delivers a new sample.
NewSample(s) ==
    /\ location' = s
    /\ timers' = Arm(enabled, s, user)
    /\ publishTimeout' = ArmRef(enabled, s, user)
    /\ UNCHANGED <<enabled, user, lastPublished, pubs, presence, profileLoc, phase, now>>
    /\ UNCHANGED matchVars
    /\ UNCHANGED schedVars

\* The enabled option changes. phase records, for the properties, how the
\* current period began: enabling starts a fresh period, disabling with a
\* debounce pending cancels it.
SetEnabled(b) ==
    /\ enabled # b
    /\ enabled' = b
    /\ timers' = Arm(b, location, user)
    /\ publishTimeout' = ArmRef(b, location, user)
    /\ phase' = IF b THEN "fresh" ELSE IF timers # <<>> THEN "cancelled" ELSE "stopped"
    /\ UNCHANGED <<location, user, lastPublished, pubs, presence, profileLoc, now>>
    /\ UNCHANGED matchVars
    /\ UNCHANGED schedVars

\* The session changes: sign-in, sign-out or another user.
SetUser(u) ==
    /\ user # u
    /\ user' = u
    /\ timers' = Arm(enabled, location, u)
    /\ publishTimeout' = ArmRef(enabled, location, u)
    /\ UNCHANGED <<enabled, location, lastPublished, pubs, presence, profileLoc, phase, now>>
    /\ UNCHANGED matchVars
    /\ UNCHANGED schedVars

\* An armed timer that is due fires: shouldPublish is evaluated on its sample
\* and, when true, publishPresence builds the presence upsert and sends it.
TimerFire(i) ==
    \E k \in 1..Len(timers) :
        LET t == timers[k] IN
        /\ now >= t.due
        /\ timers' = SubSeq(timers, 1, k - 1) \o SubSeq(timers, k + 1, Len(timers))
        /\ IF shouldPublish(t.location)
           THEN /\ FreePub(i)
                /\ pubs' = [pubs EXCEPT ![i] = [pc |-> "presence", lat |-> t.location.lat,
                                                user |-> t.user, result |-> "none"]]
           ELSE /\ i = 1
                /\ UNCHANGED pubs
        /\ phase' = IF phase = "fresh" THEN "running" ELSE phase
        /\ UNCHANGED <<enabled, location, user, publishTimeout, lastPublished, presence,
                       profileLoc, now>>
        /\ UNCHANGED matchVars
        /\ UNCHANGED schedVars

\* The reference is set as soon as the presence upsert is answered, whatever
\* the answer.
PresenceWrite_RefFirst(i, outcome) ==
    LET p == pubs[i] IN
    /\ p.pc = "presence"
    /\ lastPublished' = Published(p)
    /\ IF outcome = "ok"
       THEN /\ presence' = [presence EXCEPT ![p.user] =
                               [lat |-> p.lat, geohash |-> toGeohash(p.lat)]]
            /\ pubs' = [pubs EXCEPT ![i].pc = "profile"]
       ELSE /\ pubs' = [pubs EXCEPT ![i].pc = "done",
                                    ![i].result = IF outcome = "error" THEN "presence_error"
                                                  ELSE "presence_threw"]
            /\ UNCHANGED presence
    /\ UNCHANGED <<enabled, location, user, publishTimeout, timers, profileLoc, phase, now>>
    /\ UNCHANGED matchVars
    /\ UNCHANGED schedVars

\* The presence upsert is answered. An error or a throw ends the call; on
\* success the profile update is sent.
PresenceWrite(i, outcome) ==
    LET p == pubs[i] IN
    /\ p.pc = "presence"
    /\ IF outcome = "ok"
       THEN /\ presence' = [presence EXCEPT ![p.user] =
                               [lat |-> p.lat, geohash |-> toGeohash(p.lat)]]
            /\ pubs' = [pubs EXCEPT ![i].pc = "profile"]
       ELSE /\ pubs' = [pubs EXCEPT ![i].pc = "done",
                                    ![i].result = IF outcome = "error" THEN "presence_error"
                                                  ELSE "presence_threw"]
            /\ UNCHANGED presence
    /\ UNCHANGED <<enabled, location, user, publishTimeout, timers, lastPublished,
                   profileLoc, phase, now>>
    /\ UNCHANGED matchVars
    /\ UNCHANGED schedVars

\* The profile update is answered. Its error is only logged; then
\* lastPublishedRef is set. A throw skips that.
ProfileWrite(i, outcome) ==
    LET p == pubs[i] IN
    /\ p.pc = "profile"
    /\ profileLoc' = IF outcome = "ok"
                     THEN [profileLoc EXCEPT ![p.user] =
                              [lat |-> p.lat, geohash |-> toGeohash(p.lat)]]
                     ELSE profileLoc
    /\ lastPublished' = IF outcome = "throw" THEN lastPublished ELSE Published(p)
    /\ pubs' = [pubs EXCEPT ![i].pc = "done",
                            ![i].result = IF outcome = "throw" THEN "profile_threw"
                                          ELSE "published"]
    /\ UNCHANGED <<enabled, location, user, publishTimeout, timers, presence, phase, now>>
    /\ UNCHANGED matchVars
    /\ UNCHANGED schedVars

\* Time passes, one debounce period at a time; a timer that is due fires first.
Elapse ==
    /\ now < MaxClock
    /\ \A k \in 1..Len(timers) : timers[k].due > now
    /\ now' = now + debounceSeconds
    /\ UNCHANGED presenceVars
    /\ UNCHANGED matchVars
    /\ UNCHANGED schedVars

\* ================================================================ part 3
\* useNearbyMatches: the nearby query, its candidate loop with the reconcile
\* call of each kept candidate, and the effects that run it (on a change of
\* its inputs, on the periodic timer, on a presence change notification).

MaxEvals == 2

EvalSlots == 1..MaxEvals

\* Table 'profiles' as the nearby query sees it, in the order the store
\* returns rows. Users 1 and 2 are the ones that sign in on this client.
ProfileTable ==
    << [id |-> 7, lat |-> 3, interests |-> {"coffee"},          is_visible |-> TRUE,  onboarded |-> TRUE],
       [id |-> 1, lat |-> 1, interests |-> {"coffee", "books"}, is_visible |-> TRUE,  onboarded |-> TRUE],
       [id |-> 2, lat |-> 2, interests |-> {"coffee"},          is_visible |-> TRUE,  onboarded |-> TRUE],
       [id |-> 3, lat |-> 2, interests |-> {"books"},           is_visible |-> TRUE,  onboarded |-> TRUE],
       [id |-> 4, lat |-> 0, interests |-> {"coffee"},          is_visible |-> TRUE,  onboarded |-> TRUE],
       [id |-> 5, lat |-> 1, interests |-> {"coffee"},          is_visible |-> FALSE, onboarded |-> TRUE],
       [id |-> 6, lat |-> 1, interests |-> {"tea"},             is_visible |-> TRUE,  onboarded |-> TRUE],
       [id |-> 8, lat |-> 1, interests |-> {"coffee"},          is_visible |-> TRUE,  onboarded |-> FALSE] >>

\* profiles.interests of a user, as loadMyInterests reads it.
ProfileInterests(u) ==
    LET rows == SelectSeq(ProfileTable, LAMBDA p : p.id = u)
    IN  IF rows = <<>> THEN {} ELSE rows[1].interests

\* What a queryNearby callback closes over.
NoClosure == [enabled |-> FALSE, location |-> NoLocation, user |-> NoUser, interests |-> {}]

CurrentClosure(en, loc, u, mine) == [enabled |-> en, location |-> loc, user |-> u, interests |-> mine]

\* A queryNearby call: its closure, its place in the loop, its nearby array,
\* the candidates whose createMatchIfNeeded call has returned, and the locals
\* of the createMatchIfNeeded call that is awaited.
IdleEval == [pc |-> "idle", cl |-> NoClosure, idx |-> 0, nearby |-> <<>>, reconciled |-> {},
             existing |-> NoRow, ts |-> 0, result |-> "none"]

\* queryNearby's guard: if (!location || !user || !enabled || myInterests.length === 0)
GuardPasses_NoInterestCheck(cl) ==
    cl.location # NoLocation /\ cl.user # NoUser /\ cl.enabled

GuardPasses(cl) ==
    cl.location # NoLocation /\ cl.user # NoUser /\ cl.enabled /\ cl.interests # {}

\* lib/geo getGeohashNeighbors: the cell and the cells next to it.
getGeohashNeighbors(g) == {g - 1, g, g + 1}

\* The rows the query selects: not the user, visible, onboarded, in a
\* neighbouring cell.
Fetched_CellOnly(cl) ==
    SelectSeq(ProfileTable,
              LAMBDA p : toGeohash(p.lat) \in getGeohashNeighbors(toGeohash(cl.location.lat)))

Fetched(cl) ==
    SelectSeq(ProfileTable,
              LAMBDA p : /\ p.id # cl.user
                         /\ p.is_visible = TRUE
                         /\ p.onboarded = TRUE
                         /\ toGeohash(p.lat) \in getGeohashNeighbors(toGeohash(cl.location.lat)))

\* !profile.lat: null and 0 are both falsy.
Falsy(lat) == lat = 0

\* The loop body's three `continue` checks.
Kept_AnyInterests(cl, p) ==
    /\ ~Falsy(p.lat)
    /\ ~TooFar(distanceMeters(cl.location.lat, p.lat))

Kept(cl, p) ==
    /\ ~Falsy(p.lat)
    /\ Survives(distanceMeters(cl.location.lat, p.lat), getCommonInterests(cl.interests, p.interests))

\* nearby.push({ id, ..., distance, sharedInterests })
NearbyEntry(cl, p) ==
    [id |-> p.id, distance |-> distanceMeters(cl.location.lat, p.lat),
     sharedInterests |-> getCommonInterests(cl.interests, p.interests)]

\* The index of the next kept row after idx, 0 when the loop is over.
NextKept(cl, idx) ==
    LET later == {j \in (idx + 1)..Len(Fetched(cl)) : Kept(cl, Fetched(cl)[j])}
    IN  IF later = {} THEN 0 ELSE CHOOSE j \in later : \A k \in later : j <= k

\* The nearby array once the loop is over, in fetch order.
NearbyOf(cl) ==
    LET kept == SelectSeq(Fetched(cl), LAMBDA p : Kept(cl, p))
    IN  [k \in 1..Len(kept) |-> NearbyEntry(cl, kept[k])]

\* Array.prototype.sort((a, b) => a.distance - b.distance): stable.
RECURSIVE SortByDistance_Unstable(_)
SortByDistance_Unstable(s) ==
    IF Len(s) <= 1 THEN s
    ELSE LET rest == SortByDistance_Unstable(Tail(s))
             before == SelectSeq(rest, LAMBDA x : x.distance <= s[1].distance)
             after == SelectSeq(rest, LAMBDA x : x.distance > s[1].distance)
         IN  before \o <<s[1]>> \o after

RECURSIVE SortByDistance(_)
SortByDistance(s) ==
    IF Len(s) <= 1 THEN s
    ELSE LET rest == SortByDistance(Tail(s))
             before == SelectSeq(rest, LAMBDA x : x.distance < s[1].distance)
             after == SelectSeq(rest, LAMBDA x : x.distance >= s[1].distance)
         IN  before \o <<s[1]>> \o after

\* .select('id, status').eq('pair_id', p).maybeSingle() on a given store state.
SelectMatchIn(ms, p) ==
    LET rows == {r \in ms : r.pair_id = p}
    IN  IF Cardinality(rows) = 1
        THEN LET r == CHOOSE r \in rows : TRUE IN [id |-> r.id, status |-> r.status]
        ELSE NoRow

\* Evaluations that pass the guard are numbered in the order they start.
FreeEval(e) == evals[e].pc = "idle" /\ \A j \in EvalSlots : j < e => evals[j].pc # "idle"

\* The loop from row idx on, with the store's matches ms: it runs through the
\* rows that are skipped; at the next kept row createMatchIfNeeded is called
\* and its existence check answered; with no row left the list is sorted and
\* delivered.
LoopFrom_NoReconcile(ev, idx, ms) ==
    [ev EXCEPT !.pc = "done", !.idx = Len(Fetched(ev.cl)), !.existing = NoRow, !.ts = 0,
               !.result = "delivered", !.nearby = SortByDistance(NearbyOf(ev.cl))]

LoopFrom(ev, idx, ms) ==
    LET j == NextKept(ev.cl, idx) IN
    IF j = 0 THEN [ev EXCEPT !.pc = "done", !.idx = Len(Fetched(ev.cl)), !.existing = NoRow,
                             !.ts = 0, !.result = "delivered",
                             !.nearby = SortByDistance(ev.nearby)]
    ELSE LET found == SelectMatchIn(ms, generatePairId(ev.cl.user, Fetched(ev.cl)[j].id))
         IN  [ev EXCEPT !.idx = j, !.existing = found,
                        !.nearby = Append(ev.nearby, NearbyEntry(ev.cl, Fetched(ev.cl)[j])),
                        !.ts = IF found # NoRow THEN now ELSE 0,
                        !.pc = IF found # NoRow THEN "r_update" ELSE "r_insert"]

\* What an evaluation step does to the hook's state when it ends the call:
\* setNearbyUsers(nearby) on delivery, setLoading(false) in finally.
Delivers(ev2) == ev2.pc = "done" /\ ev2.result = "delivered"

\* A call of queryNearby with closure cl: behind the guard the list is
\* cleared; past it loading is set and the query is sent.
queryNearby(cl) ==
    IF GuardPasses(cl)
    THEN /\ \E e \in EvalSlots :
                /\ FreeEval(e)
                /\ evals' = [evals EXCEPT ![e] = [IdleEval EXCEPT !.pc = "query", !.cl = cl]]
         /\ loading' = TRUE
         /\ UNCHANGED nearbyUsers
    ELSE /\ nearbyUsers' = <<>>
         /\ UNCHANGED <<evals, loading>>

\* The effects without their cleanups: the old interval and channel stay.
Effects_NoCleanup(cl) ==
    /\ queryNearby(cl)
    /\ called' = 1
    /\ intervals' = Append(intervals, cl)
    /\ channels' = IF cl.enabled /\ cl.user # NoUser THEN Append(channels, cl) ELSE channels

\* The two effects after a render that changed queryNearby (any of enabled,
\* location, user, myInterests): the old interval is cleared, queryNearby is
\* called once and a new interval is set; the old channel, if one was
\* subscribed, is removed and, when enabled with a user, a new one subscribed.
Effects(cl) ==
    /\ queryNearby(cl)
    /\ called' = 1
    /\ intervals' = Append(SubSeq(intervals, 1, Len(intervals) - 1), cl)
    /\ channels' = LET kept == IF enabled /\ user # NoUser
                               THEN SubSeq(channels, 1, Len(channels) - 1) ELSE channels
                   IN  IF cl.enabled /\ cl.user # NoUser THEN Append(kept, cl) ELSE kept

\* The enabled option of useNearbyMatches changes.
EnabledChange(b) ==
    /\ enabled # b
    /\ enabled' = b
    /\ Effects(CurrentClosure(b, location, user, myInterests))
    /\ UNCHANGED <<location, user, myInterests, interestLoad, matches, requests, calls, now>>
    /\ UNCHANGED publisherVars

\* The location option changes.
LocationChange(s) ==
    /\ location # s
    /\ location' = s
    /\ Effects(CurrentClosure(enabled, s, user, myInterests))
    /\ UNCHANGED <<enabled, user, myInterests, interestLoad, matches, requests, calls, now>>
    /\ UNCHANGED publisherVars

\* The session changes; with a user, loadMyInterests sends its query.
UserChange(u) ==
    /\ user # u
    /\ user' = u
    /\ interestLoad' = IF u # NoUser THEN u ELSE interestLoad
    /\ Effects(CurrentClosure(enabled, location, u, myInterests))
    /\ UNCHANGED <<enabled, location, myInterests, matches, requests, calls, now>>
    /\ UNCHANGED publisherVars

\* loadMyInterests is answered: setMyInterests(data.interests || []).
InterestsLoaded ==
    /\ interestLoad # NoUser
    /\ interestLoad' = NoUser
    /\ myInterests' = ProfileInterests(interestLoad)
    /\ Effects(CurrentClosure(enabled, location, user, ProfileInterests(interestLoad)))
    /\ UNCHANGED <<enabled, location, user, matches, requests, calls, now>>
    /\ UNCHANGED publisherVars

\* setInterval(queryNearby, 30000): an interval ticks.
IntervalTick(k) ==
    /\ k \in 1..Len(intervals)
    /\ queryNearby(intervals[k])
    /\ called' = 1
    /\ UNCHANGED <<enabled, location, user, myInterests, interestLoad, intervals, channels,
                   matches, requests, calls, now>>
    /\ UNCHANGED publisherVars

\* A presence change notification reaches a subscribed channel.
PresenceChange(k) ==
    /\ k \in 1..Len(channels)
    /\ queryNearby(channels[k])
    /\ called' = 1
    /\ UNCHANGED <<enabled, location, user, myInterests, interestLoad, intervals, channels,
                   matches, requests, calls, now>>
    /\ UNCHANGED publisherVars

\* The nearby query is answered. An error is logged and the call returns; a
\* throw is caught; no rows clear the list; otherwise the loop starts.
QueryAnswer(e, outcome) ==
    LET ev == evals[e]
        ev2 == IF outcome = "error" THEN [ev EXCEPT !.pc = "done", !.result = "query_error"]
               ELSE IF outcome = "throw" THEN [ev EXCEPT !.pc = "done", !.result = "query_threw"]
               ELSE IF Fetched(ev.cl) = <<>> THEN [ev EXCEPT !.pc = "done", !.result = "empty"]
               ELSE LoopFrom(ev, 0, matches) IN
    /\ ev.pc = "query"
    /\ evals' = [evals EXCEPT ![e] = ev2]
    /\ nearbyUsers' = IF ev2.result = "empty" THEN <<>>
                      ELSE IF Delivers(ev2) THEN ev2.nearby
                      ELSE nearbyUsers
    /\ loading' = IF ev2.pc = "done" THEN FALSE ELSE loading
    /\ called' = 0
    /\ UNCHANGED <<enabled, location, user, myInterests, interestLoad, intervals, channels,
                   matches, requests, calls, now>>
    /\ UNCHANGED publisherVars

\* The store answers the write of createMatchIfNeeded (the update of the row
\* found, or the insert, applied or rejected); the loop goes on.
MatchWrite(e) ==
    LET ev == evals[e]
        p == Fetched(ev.cl)[ev.idx]
        row == ReconcileInsertRow(NewMatchId, ev.cl.user, p.id, NearbyEntry(ev.cl, p).sharedInterests)
        ms == IF ev.pc = "r_update"
              THEN {IF r.id = ev.existing.id THEN ReconcileUpdateRow(r, ev.ts) ELSE r : r \in matches}
              ELSE IF UniqueViolation(row) THEN matches ELSE matches \cup {row}
        ev2 == LoopFrom([ev EXCEPT !.reconciled = @ \cup {p.id}], ev.idx, ms) IN
    /\ ev.pc \in {"r_update", "r_insert"}
    /\ matches' = ms
    /\ evals' = [evals EXCEPT ![e] = ev2]
    /\ nearbyUsers' = IF Delivers(ev2) THEN ev2.nearby ELSE nearbyUsers
    /\ loading' = IF ev2.pc = "done" THEN FALSE ELSE loading
    /\ called' = 0
    /\ UNCHANGED <<enabled, location, user, myInterests, interestLoad, intervals, channels,
                   requests, calls, now>>
    /\ UNCHANGED publisherVars

\* ================================================== the specifications

Init ==
    /\ matches = {}
    /\ requests = {}
    /\ calls = [i \in Slots |-> Idle]
    /\ now = 0
    /\ enabled = FALSE
    /\ location = NoLocation
    /\ user = NoUser
    /\ publishTimeout = NoTimer
    /\ timers = <<>>
    /\ phase = "stopped"
    /\ lastPublished = NoPublished
    /\ pubs = [i \in PubSlots |-> IdlePub]
    /\ presence = [u \in Users |-> NoPresence]
    /\ profileLoc = [u \in Users |-> NoProfileLoc]
    /\ myInterests = {}
    /\ interestLoad = NoUser
    /\ nearbyUsers = <<>>
    /\ loading = FALSE
    /\ intervals = <<NoClosure>>
    /\ channels = <<>>
    /\ evals = [e \in EvalSlots |-> IdleEval]
    /\ called = 0

Next ==
    \/ \E i \in Slots, u \in Users, o \in Users, d \in Distances,
          mine \in SUBSET Interests, theirs \in SUBSET Interests :
            StartReconcile(i, u, o, d, mine, theirs)
    \/ \E i \in Slots : ReconcileUpdate(i)
    \/ \E i \in Slots : ReconcileInsert(i)
    \/ \E i \in Slots, u \in Users, o \in Users : StartSend(i, u, o)
    \/ \E i \in Slots : SendSelectRequest(i)
    \/ \E i \in Slots, flag \in BOOLEAN : SendSelectProfile(i, flag)
    \/ \E i \in Slots : SendInsertMatch(i)
    \/ \E i \in Slots : SendInsertRequest(i)
    \/ \E i \in Slots, u \in Users, r \in requests : StartAccept(i, u, r)
    \/ \E i \in Slots : AcceptUpdate(i)
    \/ \E i \in Slots : AcceptInsert(i)
    \/ \E i \in Slots : AcceptUpdateRequest(i)
    \/ Tick


PresenceNext ==
    \/ \E s \in Samples : NewSample(s)
    \/ \E b \in BOOLEAN : SetEnabled(b)
    \/ \E u \in Users \cup {NoUser} : SetUser(u)
    \/ \E i \in PubSlots : TimerFire(i)
    \/ \E i \in PubSlots, o \in Outcomes : PresenceWrite(i, o)
    \/ \E i \in PubSlots, o \in Outcomes : ProfileWrite(i, o)
    \/ Elapse

\* The match store and its three client operations.
Spec == Init /\ [][Next]_vars

\* The presence publisher of one client.
PresenceSpec == Init /\ [][PresenceNext]_vars

NearbyNext ==
    \/ \E b \in BOOLEAN : EnabledChange(b)
    \/ \E s \in {x \in Samples : x.speed = NoSpeed} : LocationChange(s)
    \/ \E u \in Users \cup {NoUser} : UserChange(u)
    \/ InterestsLoaded
    \/ \E k \in 1..MaxEvals : IntervalTick(k)
    \/ \E k \in 1..MaxEvals : PresenceChange(k)
    \/ \E e \in EvalSlots, o \in Outcomes : QueryAnswer(e, o)
    \/ \E e \in EvalSlots : MatchWrite(e)

\* One mounted useNearbyMatches hook and the store.
NearbySpec == Init /\ [][NearbyNext]_vars

\* ================================================================ claims

PairOf(r) == {r.uid_a, r.uid_b}

RowsOfPair(S, u, v) == {r \in S : PairOf(r) = {u, v}}

CallPair(c) == {c.user, c.other}

\* Everything of a row but last_seen_together_at.
Frame(r) == [id |-> r.id, pair_id |-> r.pair_id, uid_a |-> r.uid_a, uid_b |-> r.uid_b,
             shared_interests |-> r.shared_interests, status |-> r.status]

\* C1: in every reachable state the match store holds at most one row per
\* unordered pair of users, whatever the interleaving of reconcile calls and
\* connection-request operations of the two clients.
C1_OneRecordPerPair ==
    \A u \in Users, v \in Users : Cardinality(RowsOfPair(matches, u, v)) <= 1

\* Two clients raced to insert the same pair: one insert was applied, the
\* other was rejected by the uniqueness constraint.
C1_Witness ==
    \E i \in Slots, j \in Slots :
        /\ calls[i].op = "reconcile" /\ calls[i].conflict
        /\ calls[j].op = "accept" /\ calls[j].result = "ok"
        /\ calls[i].user # calls[j].user
        /\ CallPair(calls[i]) = CallPair(calls[j])
        /\ Cardinality(RowsOfPair(matches, calls[i].user, calls[i].other)) = 1

\* C2 (as claimed): a reconcile call whose insert is rejected by the uniqueness
\* constraint goes on to set last_seen_together_at of the existing row to the
\* current time and reports no error.
C2_ConflictRetriedAsUpdate ==
    [][\A i \in Slots :
          (calls[i].pc = "r_insert" /\ calls'[i].pc = "done" /\ calls'[i].conflict)
          => /\ calls'[i].result # "error"
             /\ \A r \in RowsOfPair(matches', calls[i].user, calls[i].other) :
                    r.last_seen = now]_vars

\* C3: a row that is connected stays connected: no step, of a reconcile call or
\* of any other operation, leaves its pair with a row of status suggested.
C3_ConnectedNeverReverts ==
    [][\A r \in matches :
          r.status = "connected"
          => \A r2 \in matches' : PairOf(r2) = PairOf(r) => r2.status = "connected"]_vars

\* A row inserted as connected by the connection flow (it carries no interests)
\* has since been refreshed by a reconcile call of its pair.
C3_Witness ==
    \E i \in Slots, r \in matches :
        /\ calls[i].op = "reconcile" /\ calls[i].result = "updated"
        /\ CallPair(calls[i]) = PairOf(r)
        /\ r.status = "connected" /\ r.shared_interests = {}

\* C4: the step that ends a reconcile call for a pair that already has a row
\* adds no row and changes no field but last_seen_together_at: status,
\* shared_interests, uid_a, uid_b and pair_id of every row are as before.
C4_ReconcileExistingOnlyRefreshes ==
    [][\A i \in Slots :
          (/\ calls[i].op = "reconcile" /\ calls[i].pc \in {"r_update", "r_insert"}
           /\ calls'[i].pc = "done"
           /\ RowsOfPair(matches, calls[i].user, calls[i].other) # {})
          => /\ {Frame(r) : r \in matches'} = {Frame(r) : r \in matches}
             /\ Cardinality(matches') = Cardinality(matches)]_vars

\* Reconciled with {coffee} and then with {coffee, books}: one row, whose
\* interests are still {coffee}.
C4_Witness ==
    \E i \in Slots, j \in Slots :
        /\ calls[i].op = "reconcile" /\ calls[i].result = "created"
        /\ calls[i].shared = {"coffee"}
        /\ calls[j].op = "reconcile" /\ calls[j].result = "updated"
        /\ calls[j].shared = {"coffee", "books"}
        /\ CallPair(calls[i]) = CallPair(calls[j])
        /\ Cardinality(matches) = 1
        /\ \A r \in matches : r.shared_interests = {"coffee"} /\ r.status = "suggested"

\* C5: the insert step of a reconcile call for a pair with no row adds exactly
\* one row, for that pair, with status suggested, the call's shared interests
\* and last_seen_together_at the current time; every candidate reconciled is
\* within maxMatchDistanceMeters and shares an interest.
C5_ReconcileAbsentInsertsSuggested ==
    [][\A i \in Slots :
          (/\ calls[i].op = "reconcile" /\ calls[i].pc = "r_insert"
           /\ calls'[i].pc = "done"
           /\ RowsOfPair(matches, calls[i].user, calls[i].other) = {})
          => /\ calls'[i].result = "created"
             /\ Cardinality(matches' \ matches) = 1
             /\ matches \subseteq matches'
             /\ \A r \in matches' \ matches :
                    /\ PairOf(r) = CallPair(calls[i])
                    /\ r.status = "suggested"
                    /\ r.shared_interests = calls[i].shared
                    /\ r.last_seen = now]_vars

\* A candidate 80 m away sharing one interest, with the threshold at 100 m,
\* got a suggested row.
C5_Witness ==
    \E i \in Slots, r \in matches :
        /\ calls[i].op = "reconcile" /\ calls[i].result = "created"
        /\ calls[i].dist = 80 /\ maxMatchDistanceMeters = 100
        /\ calls[i].shared = {"coffee"}
        /\ PairOf(r) = CallPair(calls[i])
        /\ r.status = "suggested" /\ r.shared_interests = {"coffee"}
        /\ Cardinality(matches) = 1

Reconciled(c) == c.op = "reconcile" /\ c.result \in {"created", "updated", "error"}

\* C6: reconcile(A, B) and reconcile(B, A) compute the same pair id, the one
\* the connection flow computes too, and once both have returned, in either
\* order and from either client, the pair has a single row.
C6_SwappedArgumentsCollapse ==
    /\ \A u \in Users, v \in Users :
           u # v => /\ generatePairId(u, v) = generatePairId(v, u)
                    /\ generatePairId(u, v) = PairIdOf(v, u)
    /\ \A i \in Slots, j \in Slots :
           (/\ Reconciled(calls[i]) /\ Reconciled(calls[j])
            /\ calls[i].user = calls[j].other /\ calls[i].other = calls[j].user)
           => Cardinality(RowsOfPair(matches, calls[i].user, calls[i].other)) = 1

\* The larger id reconciled first and created the row; the smaller id's call
\* then found it.
C6_Witness ==
    \E i \in Slots, j \in Slots :
        /\ calls[i].op = "reconcile" /\ calls[i].result = "created"
        /\ calls[j].op = "reconcile" /\ calls[j].result = "updated"
        /\ calls[i].user > calls[i].other
        /\ calls[j].user = calls[i].other /\ calls[j].other = calls[i].user
        /\ Cardinality(matches) = 1

\* C7: every row of the match store has uid_a strictly before uid_b in the id
\* order, and its pair_id is the join of that ordered pair.
C7_RowsOrdered ==
    \A r \in matches :
        /\ r.uid_a < r.uid_b
        /\ r.pair_id = JoinUnderscore(<<r.uid_a, r.uid_b>>)

\* A row inserted by acceptConnectionRequest called by the user with the
\* larger id: no reconcile insert (it carries no interests) and no auto-accept.
C7_Witness ==
    \E i \in Slots, r \in matches :
        /\ calls[i].op = "accept" /\ calls[i].result = "ok"
        /\ calls[i].user > calls[i].other
        /\ PairOf(r) = CallPair(calls[i])
        /\ r.shared_interests = {} /\ r.status = "connected"
        /\ \A j \in Slots : calls[j].result # "ok_auto"

\* C8 (as claimed): last_seen_together_at of a row never decreases, over any
\* interleaving of reconcile calls of the two clients.
C8_LastSeenNeverDecreases ==
    [][\A r \in matches : \A r2 \in matches' :
          r2.id = r.id => r2.last_seen >= r.last_seen]_vars

\* C9: lastPublished changes only in the step that ends a publish whose
\* presence upsert was acknowledged; the step in which a presence write
\* returns an error or throws leaves it as it was, so it always holds the
\* position of a publish that succeeded.
C9_LastPublishedOnlyAfterAck ==
    [][/\ \A i \in PubSlots :
              (pubs[i].pc = "presence" /\ pubs'[i].pc = "done")
              => lastPublished' = lastPublished
       /\ lastPublished' # lastPublished
              => \E i \in PubSlots : /\ pubs[i].pc = "profile"
                                     /\ pubs'[i].result = "published"
                                     /\ lastPublished'.lat = pubs[i].lat
       /\ lastPublished' # NoPublished
              => \E i \in PubSlots : /\ pubs'[i].result = "published"
                                     /\ lastPublished'.lat = pubs'[i].lat]_vars

\* A publish succeeded, a later one of another position failed at the
\* presence write: lastPublished still holds the first.
C9_Witness ==
    \E i \in PubSlots, j \in PubSlots :
        /\ i < j
        /\ pubs[i].result = "published"
        /\ pubs[j].result \in {"presence_error", "presence_threw"}
        /\ pubs[j].lat # pubs[i].lat
        /\ lastPublished.lat = pubs[i].lat

\* C10 (as claimed): once the publishes of one user have all completed, the
\* presence row and lastPublished hold the sample of the one that started
\* last: an older publish that completes later has not overwritten it.
C10_NewerSampleWins ==
    \A j \in PubSlots :
        (/\ pubs[j].result = "published"
         /\ \A k \in PubSlots :
                /\ k > j => pubs[k].pc = "idle"
                /\ k < j => pubs[k].result = "published" /\ pubs[k].user = pubs[j].user)
        => /\ lastPublished.lat = pubs[j].lat
           /\ presence[pubs[j].user].lat = pubs[j].lat

\* The displacement and the time since the last publish, for a sample.
Displacement(s) == distanceMeters(lastPublished.lat, s.lat)

Elapsed == now - lastPublished.timestamp

\* C11 (as claimed): once publishing was disabled with a debounce pending, no
\* step taken while it stays disabled writes the presence table or the match
\* store, however far the clock has advanced.
C11_NoWritesAfterDisable ==
    [][(phase = "cancelled" /\ phase' = "cancelled")
       => presence' = presence /\ matches' = matches]_vars

\* A step in which an armed timer fires: a timer leaves the armed timers
\* while enabled, location and user stay as they are.
FireStep ==
    /\ Len(timers') < Len(timers)
    /\ enabled' = enabled /\ location' = location /\ user' = user

\* C13: at most one debounce timer is armed at any time; a changed sample
\* that passes the effect's guard leaves exactly one timer armed, for that
\* sample and due a full debounce period later; the timer that fires is the
\* one armed last, for the latest sample, not before it is due, and its
\* firing evaluates shouldPublish once: a publish starts in that step exactly
\* when shouldPublish holds of the sample.
C13_DebounceOncePerQuietPeriod ==
    [][/\ Len(timers') <= 1
       /\ (location' # location /\ enabled' /\ user' # NoUser)
              => /\ Len(timers') = 1
                 /\ timers'[1].location = location'
                 /\ timers'[1].due = now + debounceSeconds
       /\ FireStep
              => /\ Len(timers) = 1 /\ timers' = <<>>
                 /\ enabled
                 /\ timers[1].id = publishTimeout
                 /\ timers[1].location = location
                 /\ timers[1].user = user
                 /\ now >= timers[1].due
                 /\ (pubs' # pubs) = shouldPublish(timers[1].location)
                 /\ Cardinality({i \in PubSlots : pubs'[i] # pubs[i]}) <= 1]_vars

\* A debounce fired and its sample's publish started; a newer sample then
\* restarted the wait and is still in its quiet period.
C13_Witness ==
    /\ phase = "running"
    /\ pubs[1].pc # "idle" /\ pubs[1].lat = 0
    /\ Len(timers) = 1
    /\ timers[1].location.lat = 1 /\ timers[1].due > now
    /\ location = timers[1].location

\* C14 (as claimed): with lastPublished set, shouldPublish holds of a sample
\* exactly when its displacement reaches minDisplacementMeters or the elapsed
\* time reaches the interval of its classification: stationary when it has a
\* speed below stationarySpeedThreshold, moving otherwise.
C14_ThrottleDecision ==
    lastPublished # NoPublished
    => \A s \in Samples :
           shouldPublish(s)
           = (\/ Displacement(s) >= minDisplacementMeters
              \/ Elapsed >= (IF s.speed # NoSpeed /\ s.speed < stationarySpeedThreshold
                             THEN minIntervalStationarySeconds
                             ELSE minIntervalMovingSeconds))

\* C15 (as claimed): a sample without a speed, displaced less than the
\* threshold, with the elapsed time between the moving and the stationary
\* interval, is to be published.
C15_MissingSpeedIsMoving ==
    \A s \in Samples :
        (/\ lastPublished # NoPublished
         /\ s.speed = NoSpeed
         /\ Displacement(s) < minDisplacementMeters
         /\ Elapsed >= minIntervalMovingSeconds
         /\ Elapsed < minIntervalStationarySeconds)
        => shouldPublish(s)

\* C16: while lastPublished is empty, shouldPublish holds of every sample,
\* whatever its position and speed.
C16_FirstCallPublishes ==
    lastPublished = NoPublished => \A s \in Samples : shouldPublish(s)

\* The first debounce fired one period after the start for a stationary
\* sample, nothing had been published, and the publish started.
C16_Witness ==
    /\ lastPublished = NoPublished
    /\ now = debounceSeconds
    /\ location.speed = 0
    /\ pubs[1].pc = "presence" /\ pubs[1].lat = location.lat
    /\ pubs[2].pc = "idle"

\* C17 (as claimed): the first debounce that fires after publishing was
\* enabled starts a publish, whatever was published before.
C17_FirstAfterEnablePublishes ==
    [][(phase = "fresh" /\ phase' = "running")
       => \E i \in PubSlots : pubs[i].pc = "idle" /\ pubs'[i].pc = "presence"]_vars

\* C18 (as claimed): a publish that ends after the session changed (its user
\* is no longer the signed-in user) leaves lastPublished as it was.
C18_StaleSessionAbandoned ==
    [][\A i \in PubSlots :
          (pubs[i].pc \in {"presence", "profile"} /\ pubs'[i].pc = "done" /\ pubs[i].user # user)
          => lastPublished' = lastPublished]_vars

\* C12 (as claimed): while matching is disabled no step writes the match
\* store, not even a step of an evaluation that was in its candidate loop
\* when matching was disabled.
C12_NoReconcileAfterDisable ==
    [][(~enabled /\ ~enabled') => matches' = matches]_vars

\* C19 (as claimed): the step in which an evaluation's nearby query fails
\* leaves the displayed list empty, and the periodic timer stays active.
C19_FailedQueryClearsList ==
    [][\A e \in EvalSlots :
          (evals[e].pc = "query" /\ evals'[e].result \in {"query_error", "query_threw"})
          => nearbyUsers' = <<>> /\ Len(intervals') = 1]_vars

\* The scheduler is enabled: matching is on for a signed-in user.
SchedulerEnabled(en, u) == en /\ u # NoUser

\* The evaluations a step starts.
Started == {e \in EvalSlots : evals[e].pc = "idle" /\ evals'[e].pc = "query"}

\* C20: exactly one periodic timer is active, bound to the current inputs,
\* and, while enabled, exactly one change subscription, none otherwise, so a
\* tick or a notification is one call of queryNearby; the step that enters
\* Enabled makes exactly one call, and every step that starts an evaluation
\* (entry, tick, notification) starts exactly one, with the inputs current
\* at that time.
C20_OneQueryPerTrigger ==
    [][LET cur == CurrentClosure(enabled', location', user', myInterests') IN
       /\ Len(intervals') = 1 /\ intervals'[1] = cur
       /\ IF SchedulerEnabled(enabled', user')
          THEN Len(channels') = 1 /\ channels'[1] = cur
          ELSE channels' = <<>>
       /\ (~SchedulerEnabled(enabled, user) /\ SchedulerEnabled(enabled', user'))
              => /\ called' = 1
                 /\ GuardPasses(cur) => Cardinality(Started) = 1
       /\ Started # {}
              => /\ Cardinality(Started) = 1
                 /\ called' = 1
                 /\ \A e \in Started : evals'[e].cl = cur]_vars

\* The list the first evaluation delivered was cleared by a call made while
\* matching was off, and after re-entering Enabled one fresh query with the
\* same inputs is in flight.
C20_Witness ==
    /\ evals[1].result = "delivered" /\ NearbyOf(evals[1].cl) # <<>>
    /\ nearbyUsers = <<>>
    /\ enabled /\ user # NoUser
    /\ evals[2].pc = "query"
    /\ evals[2].cl = evals[1].cl
    /\ called = 1

\* The profiles row of a user id.
Row(id) == ProfileTable[CHOOSE k \in 1..Len(ProfileTable) : ProfileTable[k].id = id]

\* The user ids of a list of nearby entries.
ListIds(s) == {s[k].id : k \in 1..Len(s)}

\* Evaluations past the guard, and those that have delivered their list.
Running == {e \in EvalSlots : evals[e].pc # "idle"}

DeliveredEvals == {e \in EvalSlots : evals[e].result = "delivered"}

\* The candidates an evaluation has made a reconcile call for: those whose
\* call has returned and the one whose call is awaited.
ReconcileTargets(e) ==
    evals[e].reconciled \cup
        (IF evals[e].pc \in {"r_update", "r_insert"}
         THEN {Fetched(evals[e].cl)[evals[e].idx].id} ELSE {})

\* The candidates of an evaluation: in its list or reconciled by it.
Candidates(e) == ListIds(evals[e].nearby) \cup ReconcileTargets(e)

\* The exact distance between an evaluation's location and a user's row.
DistanceTo(e, id) == distanceMeters(evals[e].cl.location.lat, Row(id).lat)

\* The interests an evaluation's interest set has in common with a user's row.
SharedWith(e, id) == evals[e].cl.interests \cap Row(id).interests

\* The users an evaluation fetched.
FetchedIds(e) == {Fetched(evals[e].cl)[k].id : k \in 1..Len(Fetched(evals[e].cl))}

C22_DistanceBoundaryInclusive ==
    /\ \A e \in Running : \A id \in Candidates(e) :
          DistanceTo(e, id) <= maxMatchDistanceMeters
    /\ \A e \in DeliveredEvals : \A id \in FetchedIds(e) :
          (DistanceTo(e, id) = maxMatchDistanceMeters
             /\ Row(id).lat # 0 /\ SharedWith(e, id) # {})
          => id \in ListIds(evals[e].nearby)

\* C22 witness: a delivered list holds a candidate at exactly the maximum
\* distance, and a fetched user sharing an interest lies beyond it.
C22_Witness ==
    \E e \in DeliveredEvals :
        /\ \E k \in 1..Len(evals[e].nearby) :
              evals[e].nearby[k].distance = maxMatchDistanceMeters
        /\ \E id \in FetchedIds(e) :
              /\ DistanceTo(e, id) > maxMatchDistanceMeters
              /\ SharedWith(e, id) # {}

\* C23 (as claimed): every fetched user within the maximum distance and with
\* an interest in common is in the delivered list, whatever its latitude.
C23_OnlyDistanceAndInterestsDiscard ==
    \A e \in DeliveredEvals : \A id \in FetchedIds(e) :
        (DistanceTo(e, id) <= maxMatchDistanceMeters /\ SharedWith(e, id) # {})
        => id \in ListIds(evals[e].nearby)

\* C24: no evaluation runs with an empty interest set, so none queries the
\* store or reconciles with one, and a call of queryNearby made while the
\* interest set is empty leaves the displayed list empty.
C24_EmptyInterestsShortCircuit ==
    /\ \A e \in Running : evals[e].cl.interests # {}
    /\ (called = 1 /\ myInterests = {}) => nearbyUsers = <<>>

\* C24 witness: queryNearby has just been called for a signed-in user with a
\* location and matching on, but with the interests not loaded; nothing runs,
\* the store is untouched and the list is empty.
C24_Witness ==
    /\ called = 1 /\ myInterests = {}
    /\ enabled /\ user # NoUser /\ location # NoLocation
    /\ Running = {} /\ matches = {} /\ nearbyUsers = <<>>

\* C25: when an evaluation has delivered its list, its reconcile call has
\* returned for every candidate in the list, and the store holds a match row
\* for the pair of every candidate whose call has returned.
C25_ReconciledBeforeDelivery ==
    /\ \A e \in DeliveredEvals : ListIds(evals[e].nearby) \subseteq evals[e].reconciled
    /\ \A e \in Running : \A id \in evals[e].reconciled :
          \E r \in matches : r.pair_id = generatePairId(evals[e].cl.user, id)

\* C25 witness: the displayed list is a delivered list of two candidates or
\* more.
C25_Witness ==
    \E e \in DeliveredEvals :
        /\ Len(evals[e].nearby) >= 2 /\ nearbyUsers = evals[e].nearby
        /\ evals[e].pc = "done"

\* C26: no candidate of an evaluation is the evaluation's own user, a user
\* that is not visible, or a user that is not onboarded.
C26_OnlyOtherVisibleOnboarded ==
    \A e \in Running : \A id \in Candidates(e) :
        /\ id # evals[e].cl.user
        /\ Row(id).is_visible = TRUE
        /\ Row(id).onboarded = TRUE

\* A row that the loop would keep for an evaluation.
WouldSurvive(e, p) ==
    /\ p.lat # 0
    /\ distanceMeters(evals[e].cl.location.lat, p.lat) <= maxMatchDistanceMeters
    /\ evals[e].cl.interests \cap p.interests # {}

\* C26 witness: a non-empty list has been delivered while the user's own row,
\* an invisible user's row and a not onboarded user's row were each near
\* enough and shared an interest.
C26_Witness ==
    \E e \in DeliveredEvals :
        /\ evals[e].nearby # <<>>
        /\ \E k \in 1..Len(ProfileTable) :
              ProfileTable[k].id = evals[e].cl.user /\ WouldSurvive(e, ProfileTable[k])
        /\ \E k \in 1..Len(ProfileTable) :
              ~ProfileTable[k].is_visible /\ WouldSurvive(e, ProfileTable[k])
        /\ \E k \in 1..Len(ProfileTable) :
              ~ProfileTable[k].onboarded /\ WouldSurvive(e, ProfileTable[k])

\* The place of a user in the rows an evaluation fetched.
FetchPos(e, id) ==
    CHOOSE k \in 1..Len(Fetched(evals[e].cl)) : Fetched(evals[e].cl)[k].id = id

\* C27: a delivered list is in non-decreasing order of distance, candidates
\* at the same distance in the order the store returned their rows; the
\* displayed list is in non-decreasing order of distance.
C27_SortedStable ==
    /\ \A e \in DeliveredEvals :
          LET l == evals[e].nearby IN
          \A i, j \in 1..Len(l) :
              i < j => \/ l[i].distance < l[j].distance
                       \/ /\ l[i].distance = l[j].distance
                          /\ FetchPos(e, l[i].id) < FetchPos(e, l[j].id)
    /\ \A i, j \in 1..Len(nearbyUsers) :
          i < j => nearbyUsers[i].distance <= nearbyUsers[j].distance

\* C27 witness: a delivered list has two candidates at the same distance and
\* a candidate that was fetched before a nearer one.
C27_Witness ==
    \E e \in DeliveredEvals :
        LET l == evals[e].nearby IN
        /\ nearbyUsers = l
        /\ \E i, j \in 1..Len(l) : i < j /\ l[i].distance = l[j].distance
        /\ \E i, j \in 1..Len(l) : i < j /\ FetchPos(e, l[i].id) > FetchPos(e, l[j].id)

\* C28 (as claimed): the step that sets lastPublished to a publish's sample
\* leaves both the presence row and the profile row of the publishing user
\* holding that sample's position and geohash.
C28_ProfileMatchesPresence ==
    [][\A i \in PubSlots :
          (pubs[i].pc = "profile" /\ pubs'[i].pc = "done"
             /\ lastPublished' = Published(pubs[i]))
          => /\ presence'[pubs[i].user] =
                   [lat |-> pubs[i].lat, geohash |-> toGeohash(pubs[i].lat)]
             /\ profileLoc'[pubs[i].user] =
                   [lat |-> pubs[i].lat, geohash |-> toGeohash(pubs[i].lat)]]_vars

\* C29 (as claimed): with matching off and no evaluation in flight, the
\* displayed list is empty.
C29_DisabledListEmpty ==
    (~enabled /\ \A e \in EvalSlots : evals[e].pc \in {"idle", "done"})
    => nearbyUsers = <<>>

\* C30 (as claimed): loading is false only when no evaluation is in flight.
C30_LoadingWhileInFlight ==
    (loading = FALSE) => \A e \in EvalSlots : evals[e].pc \in {"idle", "done"}

\* C31: at most one periodic timer and at most one presence-change
\* subscription are active; the one that is active was created with the
\* current inputs, the ones of earlier inputs having been torn down; there
\* is no subscription while matching is off or nobody is signed in.
C31_OneTimerOneSubscription ==
    LET cur == CurrentClosure(enabled, location, user, myInterests) IN
    /\ Len(intervals) <= 1 /\ Len(channels) <= 1
    /\ \A k \in 1..Len(intervals) : intervals[k] = cur
    /\ \A k \in 1..Len(channels) : channels[k] = cur
    /\ ~SchedulerEnabled(enabled, user) => channels = <<>>

\* C31 witness: an evaluation runs with inputs that have changed since, while
\* matching is on: one timer and one subscription are active, both created
\* with the current inputs.
C31_Witness ==
    LET cur == CurrentClosure(enabled, location, user, myInterests) IN
    /\ SchedulerEnabled(enabled, user)
    /\ intervals = <<cur>> /\ channels = <<cur>>
    /\ \E e \in EvalSlots :
          /\ evals[e].pc # "idle" /\ evals[e].cl # cur
          /\ SchedulerEnabled(evals[e].cl.enabled, evals[e].cl.user)

\* C32 (as claimed): a sendConnectionRequest call that found auto-accept
\* enabled, for a pair whose match is absent or suggested, returns success
\* and leaves the pair with exactly one row, of status connected.
C32_AutoAcceptConnects ==
    [][\A i \in Slots :
          (/\ calls[i].pc = "s_insert_match" /\ calls'[i].pc = "done"
           /\ \A r \in RowsOfPair(matches, calls[i].user, calls[i].other) :
                  r.status = "suggested")
          => /\ calls'[i].result = "ok_auto"
             /\ Cardinality(RowsOfPair(matches', calls[i].user, calls[i].other)) = 1
             /\ \A r \in RowsOfPair(matches', calls[i].user, calls[i].other) :
                    r.status = "connected"]_vars

\* A reconcile call j for the pair of call i that ran while call i was
\* running: it is still in flight, or it started after call i did.
ReconcileOverlaps(j, i) ==
    /\ calls[j].op = "reconcile"
    /\ CallPair(calls[j]) = CallPair(calls[i])
    /\ calls[j].result # "skipped"
    /\ (calls[j].pc # "done" \/ j > i)

\* C33 (as claimed): an acceptConnectionRequest call that ran concurrently
\* with a reconcile call for the same pair returns success, leaving the pair
\* with exactly one row, of status connected, and the request accepted.
C33_AcceptRacesReconcile ==
    [][\A i \in Slots :
          (/\ calls[i].op = "accept" /\ calls[i].pc # "done" /\ calls'[i].pc = "done"
           /\ \E j \in Slots : ReconcileOverlaps(j, i))
          => /\ calls'[i].result = "ok"
             /\ Cardinality(RowsOfPair(matches', calls[i].user, calls[i].other)) = 1
             /\ \A r \in RowsOfPair(matches', calls[i].user, calls[i].other) :
                    r.status = "connected"
             /\ \A q \in requests' : q.id = calls[i].req => q.status = "accepted"]_vars

====
